---- MODULE Spec2Model ----
(***************************************************************************)
(* Soybean acreage stability dashboard (src/steamlit.py).                  *)
(*                                                                         *)
(* The script is a Streamlit page: every user interaction re-runs it from  *)
(* top to bottom (one render cycle).  The model keeps the two loaded       *)
(* tables, the widget values, the map component's reported click, the      *)
(* session cell "selected_district" and what the last cycle produced.      *)
(*                                                                         *)
(* Strings that the code transforms or orders character by character       *)
(* (district names) are sequences of one-character strings.  Stability     *)
(* class labels, which the code only tests with `in` and with equality,    *)
(* are sequences of text fragments; a needle of the code is one fragment.  *)
(***************************************************************************)
EXTENDS Integers, Sequences, FiniteSets, TLC

VARIABLES
  gdf,                   \* load_shapefile(shp_path): boundary rows with District_key
  stab_df,               \* load_stability_table(csv_path): statistics rows with District_key
  csvHasState,           \* state_col_csv in stab_df.columns
  shpHasState,           \* state_col_shp in gdf.columns
  selected_state_filter, \* sidebar selectbox value
  stab_opts,             \* sidebar multiselect value
  map_data,              \* District property of the feature st_folium reports, or NoClick
  session_state,         \* st.session_state["selected_district"], or Unset
  gdf_join,              \* the merged table of the last cycle
  df_view,               \* the filtered table of the last cycle
  stab_color,            \* df_view["stab_color"], row by row
  total_pred_2025,       \* KPI of the last cycle, or NotComputed
  all_districts,         \* sorted filtered district names of the last cycle
  held_before,           \* the session cell when the last cycle started
  selected_district,     \* the local read at line 265 (before re-validation), or Unset
  wrote,                 \* which of the three assignments to the cell the last cycle executed
  status,                \* how the last cycle ended
  label,                 \* a stability label handed to classify_color on its own
  color                  \* what classify_color returned for it, or "unset"

vars == <<gdf, stab_df, csvHasState, shpHasState, selected_state_filter, stab_opts,
          map_data, session_state, gdf_join, df_view, stab_color, total_pred_2025,
          all_districts, held_before, selected_district, wrote, status, label, color>>

----------------------------------------------------------------------------
(* Bounds of the model *)

\* most boundary rows in the shapefile
MaxBoundaries == 3

\* most rows in the statistics CSV
MaxStats == 2

\* most fragments in a stability label
MaxLabelParts == 3

----------------------------------------------------------------------------
(* Values *)

\* pandas NaN: an empty CSV cell, and every right-hand column of an unmatched left row
NaN == <<"<NaN>">>

\* Python None: a null attribute of a shapefile feature
None == <<"<None>">>

\* the session cell before its first assignment
Unset == <<"<unset>">>

\* st_folium reports no last_active_drawing / last_object_clicked
NoClick == <<"<noclick>">>


\* NaN in a float column; acreages are never negative
FloatNaN == -1

\* pd.isna on a cell of a text column
isna(v) == v = NaN \/ v = None

\* pd.isna on a cell of a float column
isnan(x) == x = FloatNaN

\* code point of a character
Ord(c) ==
  CASE c = " " -> 32
    [] c = "A" -> 65
    [] c = "B" -> 66
    [] c = "E" -> 69
    [] c = "N" -> 78
    [] c = "O" -> 79
    [] c = "a" -> 97
    [] c = "b" -> 98
    [] c = "e" -> 101
    [] c = "n" -> 110
    [] c = "o" -> 111

Upper(c) ==
  CASE c = "a" -> "A"
    [] c = "b" -> "B"
    [] c = "e" -> "E"
    [] c = "n" -> "N"
    [] c = "o" -> "O"
    [] OTHER -> c

\* Series.astype(str) on an object column: a missing value becomes its printed form,
\* "nan" for NaN and "None" for None
astype_str(v) ==
  IF v = NaN THEN <<"n", "a", "n">>
  ELSE IF v = None THEN <<"N", "o", "n", "e">>
  ELSE v

str_upper(s) == [i \in DOMAIN s |-> Upper(s[i])]

RECURSIVE lstrip(_)
lstrip(s) == IF s # <<>> /\ Head(s) = " " THEN lstrip(Tail(s)) ELSE s

RECURSIVE rstrip(_)
rstrip(s) ==
  IF s # <<>> /\ s[Len(s)] = " " THEN rstrip(SubSeq(s, 1, Len(s) - 1)) ELSE s

str_strip(s) == rstrip(lstrip(s))

\* Python's < on str: lexicographic by code point
RECURSIVE StrLess(_, _)
StrLess(a, b) ==
  IF b = <<>> THEN FALSE
  ELSE IF a = <<>> THEN TRUE
  ELSE IF Ord(Head(a)) < Ord(Head(b)) THEN TRUE
  ELSE IF Ord(Head(a)) > Ord(Head(b)) THEN FALSE
  ELSE StrLess(Tail(a), Tail(b))

\* sorted(...) of a set of strings
RECURSIVE sorted(_)
sorted(S) ==
  IF S = {} THEN <<>>
  ELSE LET m == CHOOSE x \in S : \A y \in S \ {x} : StrLess(x, y)
       IN <<m>> \o sorted(S \ {m})

RECURSIVE SeqSum(_)
SeqSum(s) == IF s = <<>> THEN 0 ELSE Head(s) + SeqSum(Tail(s))

Range(s) == {s[i] : i \in DOMAIN s}

----------------------------------------------------------------------------
(* 2. LOAD DATA *)

\* the join key of both loaders
District_key(name) == str_strip(str_upper(astype_str(name)))

\* with line 95: a State column of the CSV is printed and stripped
load_stability_table(rows, hasState) ==
  [i \in DOMAIN rows |->
     [District |-> rows[i].District,
      State |-> IF hasState THEN str_strip(astype_str(rows[i].State)) ELSE NaN,
      Acreage_Stability_Class |-> rows[i].Acreage_Stability_Class,
      Predicted_2025_Acreage |-> rows[i].Predicted_2025_Acreage,
      District_key |-> District_key(rows[i].District)]]

\* the geometry of a feature is what tells two boundary rows apart
load_shapefile(rows, hasState) ==
  [i \in DOMAIN rows |->
     [District |-> rows[i].District,
      State |-> IF hasState THEN rows[i].State ELSE NaN,
      geometry |-> i,
      District_key |-> District_key(rows[i].District)]]

----------------------------------------------------------------------------
(* 3. JOIN STABILITY -> GEOMETRY *)

\* one output row of the merge: the left row, and the right row's columns or NaN
JoinRow(b, s, matched) ==
  [District |-> b.District,
   State |-> IF shpHasState THEN b.State
             ELSE IF csvHasState /\ matched THEN s.State ELSE NaN,
   geometry |-> b.geometry,
   District_key |-> b.District_key,
   District_stab |-> IF matched THEN s.District ELSE NaN,
   State_stab |-> IF shpHasState /\ csvHasState /\ matched THEN s.State ELSE NaN,
   Acreage_Stability_Class |-> IF matched THEN s.Acreage_Stability_Class ELSE NaN,
   Predicted_2025_Acreage |-> IF matched THEN s.Predicted_2025_Acreage ELSE FloatNaN]

\* LeftRows as an inner join would have it: an unmatched left row is dropped
LeftRowsInner(b, right) ==
  LET hits == SelectSeq(right, LAMBDA s : s.District_key = b.District_key)
  IN [k \in DOMAIN hits |-> JoinRow(b, hits[k], TRUE)]

\* the rows a left row produces: one per right row with its key, in right order,
\* or a single row of NaN when no right row has its key
LeftRows(b, right) ==
  LET hits == SelectSeq(right, LAMBDA s : s.District_key = b.District_key)
  IN IF hits = <<>> THEN <<JoinRow(b, b, FALSE)>>
     ELSE [k \in DOMAIN hits |-> JoinRow(b, hits[k], TRUE)]

\* DataFrame.merge(how="left"): left order kept
RECURSIVE merge(_, _)
merge(left, right) ==
  IF left = <<>> THEN <<>>
  ELSE LeftRows(Head(left), right) \o merge(Tail(left), right)

\* state_col_csv in gdf_join.columns, after the backfill of line 111
HasStateColumn == csvHasState \/ shpHasState

\* the text of the selectbox's first option
All == <<"All">>

\* state_list: the states of the joined table, or ["All"] without a State column
state_list(join) ==
  IF HasStateColumn
  THEN {join[i].State : i \in DOMAIN join} \ {NaN, None}
  ELSE {All}

----------------------------------------------------------------------------
(* 4. SIDEBAR FILTERS and 5. APPLY FILTERS *)

stability_classes ==
  << <<"Stable Acreage">>,
     <<"Moderately Variable">>,
     <<"Highly Volatile", " / Crop Switching Likely">>,
     <<"Marginal Acreage", " (Statistically Unstable)">> >>

StateFilter(view, sf) ==
  IF sf # All /\ HasStateColumn
  THEN SelectSeq(view, LAMBDA r : r.State = sf)
  ELSE view

\* ClassFilter without the `if stab_opts:` guard
ClassFilterUnguarded(view, opts) ==
  SelectSeq(view, LAMBDA r : r.Acreage_Stability_Class \in opts)

ClassFilter(view, opts) ==
  IF opts # {}
  THEN SelectSeq(view, LAMBDA r : r.Acreage_Stability_Class \in opts)
  ELSE view

ApplyFilters(join, sf, opts) == ClassFilter(StateFilter(join, sf), opts)

\* ViewEmpty with the check left out: the cycle never stops early
ViewEmptyIgnored(view) == FALSE

\* df_view.empty: the cycle warns and stops
ViewEmpty(view) == view = <<>>

----------------------------------------------------------------------------
(* 6. COLOR MAPPING FOR STABILITY CLASS *)

\* needle in label
Contains(text, needle) == \E i \in DOMAIN text : text[i] = needle

\* classify_color with the tests in the order of the risk text (section 9)
classify_color_stable_first(stab_class) ==
  IF isna(stab_class) THEN "#CCCCCC"
  ELSE IF Contains(stab_class, "Stable Acreage") THEN "#00A000"
  ELSE IF Contains(stab_class, "Moderately Variable") THEN "#FFFF00"
  ELSE IF Contains(stab_class, "Highly Volatile") THEN "#FF7F00"
  ELSE IF Contains(stab_class, "Marginal Acreage") THEN "#FF0000"
  ELSE "#CCCCCC"

classify_color(stab_class) ==
  IF isna(stab_class) THEN "#CCCCCC"
  ELSE IF Contains(stab_class, "Marginal Acreage") THEN "#FF0000"
  ELSE IF Contains(stab_class, "Highly Volatile") THEN "#FF7F00"
  ELSE IF Contains(stab_class, "Moderately Variable") THEN "#FFFF00"
  ELSE IF Contains(stab_class, "Stable Acreage") THEN "#00A000"
  ELSE "#CCCCCC"

----------------------------------------------------------------------------
(* 7. SUMMARY KPIs *)

\* the summary section did not run; a sum of acreages is never negative
NotComputed == 0 - 2

\* Series.sum(skipna=True)
SumPredicted(view) ==
  LET present == SelectSeq(view, LAMBDA r : ~isnan(r.Predicted_2025_Acreage))
  IN SeqSum([i \in DOMAIN present |-> present[i].Predicted_2025_Acreage])

----------------------------------------------------------------------------
(* 8. MAP + DISTRICT DETAIL: the selected district *)

\* unique() without sorted(): the names in order of first appearance
RECURSIVE InOrder(_, _)
InOrder(view, seen) ==
  IF view = <<>> THEN <<>>
  ELSE IF isna(Head(view).District) \/ Head(view).District \in seen
       THEN InOrder(Tail(view), seen)
       ELSE <<Head(view).District>> \o InOrder(Tail(view), seen \cup {Head(view).District})

UnsortedDistricts(view) == InOrder(view, {})

\* sorted(df_view[district_col_csv].dropna().unique())
SortedDistricts(view) ==
  sorted({view[i].District : i \in DOMAIN view} \ {NaN, None})

\* clicked_props.get(district_col_csv), or None when the map reports no feature
clicked_district(md) == IF md = NoClick THEN None ELSE md

\* NotInSession with the test left out: the fallback is assigned on every cycle
NotInSessionAlways(cell) == TRUE

\* "selected_district" not in st.session_state
NotInSession(cell) == cell = Unset

\* if clicked_district: None and "" are falsy
Truthy(clicked) == ~isna(clicked) /\ clicked # <<>>

\* selected_district not in all_districts
NotInView(sel, districts) == sel \notin Range(districts)

\* all_districts[-1]
LastDistrict(districts) == districts[Len(districts)]

\* all_districts[0]
FirstDistrict(districts) == districts[1]

\* df_view[df_view[district_col_csv] == selected_district].iloc[0]
drow(view, sel) ==
  LET i == CHOOSE i \in DOMAIN view :
             /\ view[i].District = sel
             /\ \A j \in 1..(i - 1) : view[j].District # sel
  IN view[i]

----------------------------------------------------------------------------
(* 9. TEXTUAL RISK INTERPRETATION *)

\* the chain of `in` tests on drow["Acreage_Stability_Class"]; `in` on a float NaN
\* raises TypeError
RiskInterpretation(stab_class) ==
  IF isna(stab_class) THEN "TypeError"
  ELSE IF Contains(stab_class, "Stable Acreage") THEN "stable"
  ELSE IF Contains(stab_class, "Moderately Variable") THEN "moderate"
  ELSE IF Contains(stab_class, "Highly Volatile") THEN "volatile"
  ELSE IF Contains(stab_class, "Marginal Acreage") THEN "marginal"
  ELSE "unclear"

----------------------------------------------------------------------------
(* One render cycle: the script from line 103 to its end *)

\* what a cycle leaves behind
Outcome(st, join, view, colors, total, districts, cell, sel, writes) ==
  [status |-> st, gdf_join |-> join, df_view |-> view, stab_color |-> colors,
   total_pred_2025 |-> total, all_districts |-> districts, session_state |-> cell,
   selected_district |-> sel, wrote |-> writes]

\* lines 272-406: the detail panel, the risk text (which raises on a NaN class) and
\* the table
Detail(join, view, colors, total, districts, cell, held, writes) ==
  Outcome(IF RiskInterpretation(drow(view, cell).Acreage_Stability_Class) = "TypeError"
          THEN "TypeError" ELSE "done",
          join, view, colors, total, districts, cell, held, writes)

\* lines 265-270: read the cell, re-validate it against the view
Revalidate(join, view, colors, total, districts, cell, writes) ==
  IF NotInView(cell, districts)
  THEN IF districts = <<>>
       THEN \* all_districts[0] raises IndexError
            Outcome("IndexError", join, view, colors, total, districts, cell, cell, writes)
       ELSE Detail(join, view, colors, total, districts, FirstDistrict(districts), cell,
                   writes \cup {"invalidate"})
  ELSE Detail(join, view, colors, total, districts, cell, cell, writes)

\* lines 262-263: a reported click overwrites the cell
ApplyClick(join, view, colors, total, districts, clicked, cell, writes) ==
  IF Truthy(clicked)
  THEN Revalidate(join, view, colors, total, districts, clicked, writes \cup {"click"})
  ELSE Revalidate(join, view, colors, total, districts, cell, writes)

\* lines 259-260: the fallback when the cell was never assigned
InitCell(join, view, colors, total, districts, clicked, cell) ==
  IF NotInSession(cell)
  THEN IF districts = <<>>
       THEN \* all_districts[0] raises IndexError
            Outcome("IndexError", join, view, colors, total, districts, cell, Unset, {})
       ELSE ApplyClick(join, view, colors, total, districts, clicked,
                       FirstDistrict(districts), {"init"})
  ELSE ApplyClick(join, view, colors, total, districts, clicked, cell, {})

\* lines 158-256: stop on an empty view, else colour, summarise, draw the map
AfterFilters(join, view, md, cell) ==
  IF ViewEmpty(view)
  THEN \* st.warning, st.stop
       Outcome("no_matches", join, view, <<>>, NotComputed, <<>>, cell, Unset, {})
  ELSE InitCell(join, view,
                [i \in DOMAIN view |-> classify_color(view[i].Acreage_Stability_Class)],
                SumPredicted(view), SortedDistricts(view), clicked_district(md), cell)

\* lines 148-154
AfterJoin(join, sf, opts, md, cell) ==
  AfterFilters(join, ApplyFilters(join, sf, opts), md, cell)

\* lines 103-108
RenderCycle(sf, opts, md, cell) == AfterJoin(merge(gdf, stab_df), sf, opts, md, cell)

\* the cycle passed line 242: the map is on the page
MapShown == status \in {"IndexError", "TypeError", "done"}

----------------------------------------------------------------------------
(* Inputs *)

\* rows a shapefile can hold: names as the file spells them
BoundaryRows ==
  { [District |-> <<"A">>, State |-> <<"N">>],
    [District |-> <<"N", "a", "n">>, State |-> <<"M">>],
    [District |-> <<"a", " ">>, State |-> <<"M">>],
    [District |-> None, State |-> <<"M">>] }

\* rows a statistics CSV can hold
StatRows ==
  { [District |-> <<"A">>, State |-> <<"M">>,
     Acreage_Stability_Class |-> stability_classes[1],
     Predicted_2025_Acreage |-> 2],
    [District |-> <<" ", "a">>, State |-> <<"M", " ">>,
     Acreage_Stability_Class |-> stability_classes[4],
     Predicted_2025_Acreage |-> 1],
    [District |-> NaN, State |-> <<"N">>,
     Acreage_Stability_Class |-> stability_classes[3],
     Predicted_2025_Acreage |-> 3] }

\* the pieces a stability label is made of: the four needles and other text
Fragments ==
  {"Stable Acreage", "Moderately Variable", "Highly Volatile", "Marginal Acreage",
   " / ", "Unclassified"}

SeqsUpTo(S, n) == UNION {[1..k -> S] : k \in 0..n}

\* the tables of at most n rows of S, no row twice
Tables(S, n) ==
  {s \in SeqsUpTo(S, n) : \A i, j \in DOMAIN s : i # j => s[i] # s[j]}

\* selections of the multiselect the model tries
OptChoices ==
  { {},
    Range(stability_classes),
    {stability_classes[1], stability_classes[2]} }

----------------------------------------------------------------------------
(* The state machine *)

Init ==
  /\ csvHasState \in BOOLEAN
  /\ shpHasState \in BOOLEAN
  /\ \E rows \in Tables(BoundaryRows, MaxBoundaries) :
        gdf = load_shapefile(rows, shpHasState)
  /\ \E rows \in Tables(StatRows, MaxStats) :
        stab_df = load_stability_table(rows, csvHasState)
  /\ selected_state_filter = All
  /\ stab_opts = Range(stability_classes)
  /\ map_data = NoClick
  /\ session_state = Unset
  /\ gdf_join = <<>>
  /\ df_view = <<>>
  /\ stab_color = <<>>
  /\ total_pred_2025 = NotComputed
  /\ all_districts = <<>>
  /\ held_before = Unset
  /\ selected_district = Unset
  /\ wrote = {}
  /\ status = "not_run"
  /\ label = NaN
  /\ color = "unset"

\* run the script with these widget values and this map value
Run(sf, opts, md) ==
  \E o \in {RenderCycle(sf, opts, md, session_state)} :
     /\ selected_state_filter' = sf
     /\ stab_opts' = opts
     /\ map_data' = md
     /\ held_before' = session_state
     /\ session_state' = o.session_state
     /\ gdf_join' = o.gdf_join
     /\ df_view' = o.df_view
     /\ stab_color' = o.stab_color
     /\ total_pred_2025' = o.total_pred_2025
     /\ all_districts' = o.all_districts
     /\ selected_district' = o.selected_district
     /\ wrote' = o.wrote
     /\ status' = o.status
     /\ UNCHANGED <<gdf, stab_df, csvHasState, shpHasState, label, color>>

\* the first run of a session: widget defaults, nothing clicked
FirstRun ==
  /\ status = "not_run"
  /\ Run(All, Range(stability_classes), NoClick)

\* the user changes a sidebar filter.  A map on the page keeps its last click; a
\* map the last cycle did not draw is built anew and may report it or none
ChangeFilters(sf, opts, keep) ==
  /\ status # "not_run"
  /\ sf \in {All} \cup state_list(gdf_join)
  /\ opts \in OptChoices
  /\ <<sf, opts>> # <<selected_state_filter, stab_opts>>
  /\ keep \/ (~MapShown /\ map_data # NoClick)
  /\ Run(sf, opts, IF keep THEN map_data ELSE NoClick)

\* the user clicks feature i of the map on the page
ClickMap(i) ==
  /\ MapShown
  /\ i \in DOMAIN df_view
  /\ Run(selected_state_filter, stab_opts, df_view[i].District)

Next ==
  \/ FirstRun
  \/ \E sf \in {All, <<"M">>, <<"N">>}, opts \in OptChoices, keep \in BOOLEAN :
        ChangeFilters(sf, opts, keep)
  \/ \E i \in 1..(MaxBoundaries * MaxStats) : ClickMap(i)

Spec == Init /\ [][Next]_vars

----------------------------------------------------------------------------
(* classify_color on its own, over every label of at most MaxLabelParts fragments *)

InitColor ==
  /\ label \in SeqsUpTo(Fragments, MaxLabelParts) \cup {NaN, None}
  /\ color = "unset"
  /\ csvHasState = FALSE
  /\ shpHasState = FALSE
  /\ gdf = <<>>
  /\ stab_df = <<>>
  /\ selected_state_filter = All
  /\ stab_opts = Range(stability_classes)
  /\ map_data = NoClick
  /\ session_state = Unset
  /\ gdf_join = <<>>
  /\ df_view = <<>>
  /\ stab_color = <<>>
  /\ total_pred_2025 = NotComputed
  /\ all_districts = <<>>
  /\ held_before = Unset
  /\ selected_district = Unset
  /\ wrote = {}
  /\ status = "not_run"

\* df_view["Acreage_Stability_Class"].apply(classify_color), one cell
Classify ==
  /\ color = "unset"
  /\ color' = classify_color(label)
  /\ UNCHANGED <<gdf, stab_df, csvHasState, shpHasState, selected_state_filter, stab_opts,
                 map_data, session_state, gdf_join, df_view, stab_color, total_pred_2025,
                 all_districts, held_before, selected_district, wrote, status, label>>

NextColor == Classify

SpecColor == InitColor /\ [][NextColor]_vars

----------------------------------------------------------------------------
(* Properties *)

\* a render cycle has run
Ran == status # "not_run"

\* the last cycle went past the selection step into the detail panel (line 272)
ReachedDetail == status \in {"done", "TypeError"}

\* the region names of the filtered set, missing names left out
ViewNames == {df_view[i].District : i \in DOMAIN df_view} \ {NaN, None}

\* n comes first among the names of S in Python's string order
IsFirstOf(n, S) == n \in S /\ \A m \in S : m = n \/ StrLess(n, m)

\* the statistics rows that carry the key of boundary row i
StatsWithKey(key) == {k \in DOMAIN stab_df : stab_df[k].District_key = key}

\* the joined rows that come from boundary row i
RowsOf(i) == {j \in DOMAIN gdf_join : gdf_join[j].geometry = i}

\* a joined row whose statistic fields are all undefined
StatFieldsUndefined(r) ==
  /\ r.District_stab = NaN
  /\ r.State_stab = NaN
  /\ r.Acreage_Stability_Class = NaN
  /\ r.Predicted_2025_Acreage = FloatNaN

\* a joined row passes the filters as the sidebar holds them
Passes(r) ==
  /\ selected_state_filter = All \/ ~HasStateColumn \/ r.State = selected_state_filter
  /\ stab_opts = {} \/ r.Acreage_Stability_Class \in stab_opts

C2_CellRevalidated ==
  ReachedDetail =>
    /\ \E i \in DOMAIN df_view : df_view[i].District = session_state
    /\ selected_district \notin ViewNames => IsFirstOf(session_state, ViewNames)
    /\ selected_district \in ViewNames => session_state = selected_district

\* init, click(k), then a filter change that excludes k and leaves two other regions
C2_Witness ==
  /\ status = "done"
  /\ held_before # Unset
  /\ selected_district = map_data
  /\ selected_district \notin ViewNames
  /\ Cardinality(ViewNames) >= 2
  /\ IsFirstOf(session_state, ViewNames)

\* C3 as stated: every boundary record appears exactly once in the joined output, and an
\* unmatched boundary record has all statistic fields undefined.
C3_EachBoundaryOnce ==
  Ran => \A i \in DOMAIN gdf :
           /\ Cardinality(RowsOf(i)) = 1
           /\ StatsWithKey(gdf[i].District_key) = {} =>
                \A j \in RowsOf(i) : StatFieldsUndefined(gdf_join[j])

\* C3 amended: every boundary record appears once per statistics record that shares its
\* normalized key and once when there is none, in boundary order, and an unmatched
\* boundary record has all statistic fields undefined.
C3_LeftJoinFanOut ==
  Ran =>
    /\ \A i \in DOMAIN gdf :
         /\ Cardinality(RowsOf(i)) =
              IF StatsWithKey(gdf[i].District_key) = {} THEN 1
              ELSE Cardinality(StatsWithKey(gdf[i].District_key))
         /\ \A j \in RowsOf(i) :
              /\ gdf_join[j].District = gdf[i].District
              /\ StatsWithKey(gdf[i].District_key) = {} => StatFieldsUndefined(gdf_join[j])
    /\ \A j, k \in DOMAIN gdf_join : j < k => gdf_join[j].geometry <= gdf_join[k].geometry

\* one boundary fanned out over two statistics rows, another left unmatched
C3_Witness ==
  /\ Ran
  /\ \E i \in DOMAIN gdf : Cardinality(RowsOf(i)) = 2
  /\ \E i \in DOMAIN gdf :
       /\ StatsWithKey(gdf[i].District_key) = {}
       /\ \E j \in RowsOf(i) : StatFieldsUndefined(gdf_join[j])

\* C4 as stated: with scope "All" and all four classes selected the filtered set is the
\* joined dataset, same records in the same order, missing and unlisted classes included.
C4_FilterIdentity ==
  (Ran /\ selected_state_filter = All /\ stab_opts = Range(stability_classes))
    => df_view = gdf_join

\* C5: the color of a label is decided by the first rule that matches, in the order
\* missing, "Marginal Acreage", "Highly Volatile", "Moderately Variable",
\* "Stable Acreage", anything else.
C5_ColorPriority ==
  color # "unset" =>
    /\ isna(label) => color = "#CCCCCC"
    /\ (~isna(label) /\ Contains(label, "Marginal Acreage")) => color = "#FF0000"
    /\ (~isna(label) /\ ~Contains(label, "Marginal Acreage")
          /\ Contains(label, "Highly Volatile")) => color = "#FF7F00"
    /\ (~isna(label) /\ ~Contains(label, "Marginal Acreage")
          /\ ~Contains(label, "Highly Volatile")
          /\ Contains(label, "Moderately Variable")) => color = "#FFFF00"
    /\ (~isna(label) /\ ~Contains(label, "Marginal Acreage")
          /\ ~Contains(label, "Highly Volatile")
          /\ ~Contains(label, "Moderately Variable")
          /\ Contains(label, "Stable Acreage")) => color = "#00A000"
    /\ (~isna(label) /\ \A f \in Range(label) :
          f \notin {"Marginal Acreage", "Highly Volatile", "Moderately Variable",
                    "Stable Acreage"}) => color = "#CCCCCC"

\* a label with both "Stable Acreage" and "Marginal Acreage" came out red
C5_Witness ==
  /\ ~isna(label)
  /\ Contains(label, "Stable Acreage")
  /\ Contains(label, "Marginal Acreage")
  /\ color = "#FF0000"

\* the raw name and the key of every loaded row, of either table
NamedKeys ==
  {<<gdf[i].District, gdf[i].District_key>> : i \in DOMAIN gdf}
    \cup {<<stab_df[k].District, stab_df[k].District_key>> : k \in DOMAIN stab_df}

\* C6 as stated: the key of a missing region name differs from the key of every
\* non-missing region name, on both sides, and a joined row never pairs a missing
\* region name with a real one.
C6_NullKeyDistinct ==
  Ran =>
    /\ \A x, y \in NamedKeys : (isna(x[1]) /\ ~isna(y[1])) => x[2] # y[2]
    /\ \A j \in DOMAIN gdf_join :
         StatsWithKey(gdf_join[j].District_key) # {} =>
           (isna(gdf_join[j].District) <=> isna(gdf_join[j].District_stab))

\* C7 as stated: every cycle performs exactly one of the three writes to the cell.
C7_ExactlyOneWrite == Ran => Cardinality(wrote) = 1

\* C7 amended: a cycle performs at most two of the three writes.  The init write happens
\* only when the cell was unset and then it is the only write; the click write happens
\* only when the map reports a region; the invalidation write happens only when the key
\* read at line 265 is not in the filtered set; a cycle that stops on an empty result, or
\* that finds the cell set, no region reported and the held key in the filtered set,
\* performs none.
C7_WritesPerCycle ==
  Ran =>
    /\ Cardinality(wrote) <= 2
    /\ "init" \in wrote => (held_before = Unset /\ wrote = {"init"})
    /\ "click" \in wrote => Truthy(clicked_district(map_data))
    /\ "invalidate" \in wrote => selected_district \notin ViewNames
    /\ status = "no_matches" => wrote = {}
    /\ (ReachedDetail /\ held_before \in ViewNames /\ ~Truthy(clicked_district(map_data)))
         => wrote = {}

\* a click write and an invalidation write in the same cycle
C7_Witness == status = "done" /\ wrote = {"click", "invalidate"}

\* C8 as stated: a cycle whose filtered set is not empty, and so has a district to
\* select, runs to completion whatever fields of that district are missing.
C8_MissingValueNoError == (Ran /\ df_view # <<>> /\ ViewNames # {}) => status = "done"

\* C9: a cycle whose filters exclude every record ends in "no matches" before the
\* summary, the selection update and the detail panel run, and leaves the cell as it was.
C9_EmptyResultHalts ==
  (Ran /\ \A j \in DOMAIN gdf_join : ~Passes(gdf_join[j])) =>
    /\ status = "no_matches"
    /\ session_state = held_before
    /\ wrote = {}
    /\ total_pred_2025 = NotComputed
    /\ stab_color = <<>>
    /\ all_districts = <<>>
    /\ selected_district = Unset

\* a set cell survived a cycle that excluded every record of a non-empty dataset
C9_Witness ==
  /\ status = "no_matches"
  /\ gdf_join # <<>>
  /\ held_before # Unset
  /\ session_state = held_before

====
